---------------------------- MODULE Spec2Model ----------------------------
(***************************************************************************)
(* A model of the identity core of fuse:                                   *)
(*   fuse_core::Constraint           (fuse_core/constraint.h)              *)
(*   fuse_variables::AccelerationAngular2DStamped                          *)
(*                       (fuse_variables/acceleration_angular_2d_stamped.h)*)
(* The state is a heap of Variable objects, a heap of Constraint objects,  *)
(* the state of the random UUID generator, the cost function objects       *)
(* handed out so far, and the value returned by the last call.             *)
(***************************************************************************)
EXTENDS Integers, Sequences, FiniteSets

(***************************************************************************)
(* Bounds of the model.                                                    *)
(***************************************************************************)
MaxObjects == 2
\* Variables and Constraints alive at once
MaxStamp == 1
\* timestamps are 0 .. MaxStamp
MaxValue == 1
\* scalar values are 0 .. MaxValue (0 stands for 0.0)
MaxLen == 2
\* longest endpoint list handed to a Constraint constructor
MaxCostFunctions == 2
\* costFunction() calls

(***************************************************************************)
(* Program constants.                                                      *)
(***************************************************************************)
YAW == 0
SIZE == 1
nullptr == 0
NIL == <<"nil">>
DEVICE == <<"device">>
TYPE == "fuse_variables::AccelerationAngular2DStamped"
CONSTRAINT_TYPE == "Derived"

Stamps == 0 .. MaxStamp
Devices == {NIL, DEVICE}
Values == 0 .. MaxValue

VARIABLES variableHeap, variableRoot, constraintHeap, constraintBirth,
          generated, costFunctions, ret

vars == <<variableHeap, variableRoot, constraintHeap, constraintBirth,
          generated, costFunctions, ret>>

(***************************************************************************)
(* fuse_core::uuid                                                         *)
(***************************************************************************)
\* uuid::generate(namespace_string, stamp, device_id): a name-based identifier,
\* a hash of its three arguments.
uuid_generate_name(type, stamp, device_id) == <<"name", type, stamp, device_id>>

\* uuid::generate(): the n-th value drawn from the process-wide random source.
uuid_generate(n) == <<"random", n>>

(***************************************************************************)
(* fuse_variables::AccelerationAngular2DStamped                            *)
(***************************************************************************)
Live == Len(variableHeap) + Len(constraintHeap)

VariableRefs == 1 .. Len(variableHeap)

\* The object the constructor leaves behind.
AccelerationAngular2DStamped_ctor(stamp, device_id) ==
  [uuid_      |-> uuid_generate_name(TYPE, stamp, device_id),
   stamp_     |-> stamp,
   device_id_ |-> device_id,
   data_      |-> [k \in 0 .. SIZE - 1 |-> 0]]

\* yaw() = value through the read-write accessor, on the object at self.
\* Faulty variants of the write, against which the properties are compared:
\* data_ shared by all instances (a static member),
yaw_assign_static(heap, self, value) ==
  [i \in DOMAIN heap |-> [heap[i] EXCEPT !.data_[YAW] = value]]

\* data_ shared by the instances that carry the same identifier,
yaw_assign_by_uuid(heap, self, value) ==
  [i \in DOMAIN heap |->
     IF heap[i].uuid_ = heap[self].uuid_
       THEN [heap[i] EXCEPT !.data_[YAW] = value]
       ELSE heap[i]]

\* an index past the end of data_, the value landing in uuid_,
yaw_assign_overrun(heap, self, value) ==
  [heap EXCEPT ![self].uuid_ = <<"raw", value>>]

\* and a write that grows data_ by one element.
yaw_assign_resize(heap, self, value) ==
  [heap EXCEPT ![self].data_ = [k \in 0 .. SIZE |-> value]]

\* double& yaw() { return data_[YAW]; }
yaw_assign(heap, self, value) ==
  [heap EXCEPT ![self].data_[YAW] = value]

\* const yaw()
yaw(this) == this.data_[YAW]

\* uuid(): returns uuid_ (the faulty variant returns the device id).
AccelerationAngular2DStamped_uuid_device(this) == this.device_id_
AccelerationAngular2DStamped_uuid(this) == this.uuid_

\* Stamped::stamp(), Stamped::deviceId(), FixedSizeVariable<1>::size()
stamp(this) == this.stamp_
deviceId(this) == this.device_id_
size(this) == Cardinality(DOMAIN this.data_)

\* clone(): make_unique(*this), the member-wise copy.
AccelerationAngular2DStamped_clone(this) == this

\* print(stream): what is written to the stream.
AccelerationAngular2DStamped_print(this) ==
  <<TYPE, this.uuid_, this.stamp_, this.device_id_, this.data_[YAW]>>

NewVariable(stamp_in, device_id) ==
  /\ Live < MaxObjects
  /\ variableHeap' =
       Append(variableHeap, AccelerationAngular2DStamped_ctor(stamp_in, device_id))
  /\ variableRoot' = Append(variableRoot, Len(variableHeap) + 1)
  /\ ret' = [op |-> "AccelerationAngular2DStamped", self |-> Len(variableHeap) + 1,
             val |-> <<stamp_in, device_id>>]
  /\ UNCHANGED <<constraintHeap, constraintBirth, generated, costFunctions>>

YawWrite(self, value) ==
  /\ variableHeap' = yaw_assign(variableHeap, self, value)
  /\ ret' = [op |-> "yaw=", self |-> self, val |-> value]
  /\ UNCHANGED <<variableRoot, constraintHeap, constraintBirth, generated,
                 costFunctions>>

YawRead(self) ==
  /\ ret' = [op |-> "yaw", self |-> self, val |-> yaw(variableHeap[self])]
  /\ UNCHANGED <<variableHeap, variableRoot, constraintHeap, constraintBirth,
                 generated, costFunctions>>

VariableUuid(self) ==
  /\ ret' = [op |-> "Variable::uuid", self |-> self,
             val |-> AccelerationAngular2DStamped_uuid(variableHeap[self])]
  /\ UNCHANGED <<variableHeap, variableRoot, constraintHeap, constraintBirth,
                 generated, costFunctions>>

VariablePrint(self) ==
  /\ ret' = [op |-> "Variable::print", self |-> self,
             val |-> AccelerationAngular2DStamped_print(variableHeap[self])]
  /\ UNCHANGED <<variableHeap, variableRoot, constraintHeap, constraintBirth,
                 generated, costFunctions>>

VariableClone(self) ==
  /\ Live < MaxObjects
  /\ variableHeap' =
       Append(variableHeap, AccelerationAngular2DStamped_clone(variableHeap[self]))
  /\ variableRoot' = Append(variableRoot, variableRoot[self])
  /\ ret' = [op |-> "Variable::clone", self |-> self,
             val |-> Len(variableHeap) + 1]
  /\ UNCHANGED <<constraintHeap, constraintBirth, generated, costFunctions>>

(***************************************************************************)
(* fuse_core::Constraint                                                   *)
(***************************************************************************)
ConstraintRefs == 1 .. Len(constraintHeap)

\* The identifiers a caller may name as endpoints.
EndpointUuids == {uuid_generate_name(TYPE, 0, d) : d \in Devices}

EndpointLists == UNION {[1 .. k -> EndpointUuids] : k \in 0 .. MaxLen}

\* while (first != last) variables_.push_back(*first++);
\* range holds the elements, first and last are positions in it.
\* (The faulty variant inserts at the front.)
RECURSIVE push_back_range_front(_, _, _, _)
push_back_range_front(variables_, range, first, last) ==
  IF first # last
    THEN push_back_range_front(<<range[first]>> \o variables_, range, first + 1, last)
    ELSE variables_

RECURSIVE push_back_range(_, _, _, _)
push_back_range(variables_, range, first, last) ==
  IF first # last
    THEN push_back_range(Append(variables_, range[first]), range, first + 1, last)
    ELSE variables_

\* Constraint(first, last): the object the iterator-range constructor leaves
\* behind, n being the number of identifiers the random source gave out before.
\* (The faulty variant leaves uuid_ at NIL.)
Constraint_range_nil(n, range) ==
  [uuid_      |-> NIL,
   variables_ |-> push_back_range(<<>>, range, 1, Len(range) + 1)]

Constraint_range(n, range) ==
  [uuid_      |-> uuid_generate(n + 1),
   variables_ |-> push_back_range(<<>>, range, 1, Len(range) + 1)]

\* Constraint(std::initializer_list<UUID>): the object it leaves behind.
Constraint_list(n, variable_uuid_list) ==
  [uuid_      |-> uuid_generate(n + 1),
   variables_ |-> variable_uuid_list]

\* type(), uuid(), variables(), lossFunction(); the faulty variant of
\* lossFunction() returns a loss object.
type(this) == CONSTRAINT_TYPE
Constraint_uuid(this) == this.uuid_
variables(this) == this.variables_
lossFunction_robust(this) == Len(this.variables_) + 1
lossFunction(this) == nullptr

\* costFunction(): a new cost function object; issued are the ones returned so
\* far. The faulty variant hands out one object per Constraint again and again.
costFunction_cached(this, issued) == Len(this.variables_) + 1
costFunction(this, issued) == Len(issued) + 1

\* clone(): Derived::make_unique(*this), the member-wise copy.
Constraint_clone(this) == this

\* print(stream): what is written to the stream.
Constraint_print(this) == <<type(this), this.uuid_, this.variables_>>

NewConstraintRange(range) ==
  /\ Live < MaxObjects
  /\ constraintHeap' = Append(constraintHeap, Constraint_range(generated, range))
  /\ constraintBirth' =
       Append(constraintBirth, [root |-> Len(constraintHeap) + 1, input |-> range])
  /\ generated' = generated + 1
  /\ ret' = [op |-> "Constraint(first, last)", self |-> Len(constraintHeap) + 1,
             val |-> range]
  /\ UNCHANGED <<variableHeap, variableRoot, costFunctions>>

NewConstraintList(variable_uuid_list) ==
  /\ Live < MaxObjects
  /\ IF variable_uuid_list = <<>>
       THEN /\ ret' = [op |-> "Constraint{}", self |-> 0, val |-> variable_uuid_list]
            /\ UNCHANGED <<constraintHeap, constraintBirth, generated>>
       ELSE /\ constraintHeap' =
                 Append(constraintHeap, Constraint_list(generated, variable_uuid_list))
            /\ constraintBirth' =
                 Append(constraintBirth, [root  |-> Len(constraintHeap) + 1,
                                          input |-> variable_uuid_list])
            /\ generated' = generated + 1
            /\ ret' = [op |-> "Constraint{}", self |-> Len(constraintHeap) + 1,
                       val |-> variable_uuid_list]
  /\ UNCHANGED <<variableHeap, variableRoot, costFunctions>>

ConstraintType(self) ==
  /\ ret' = [op |-> "type", self |-> self, val |-> type(constraintHeap[self])]
  /\ UNCHANGED <<variableHeap, variableRoot, constraintHeap, constraintBirth,
                 generated, costFunctions>>

ConstraintUuid(self) ==
  /\ ret' = [op |-> "Constraint::uuid", self |-> self,
             val |-> Constraint_uuid(constraintHeap[self])]
  /\ UNCHANGED <<variableHeap, variableRoot, constraintHeap, constraintBirth,
                 generated, costFunctions>>

ConstraintVariables(self) ==
  /\ ret' = [op |-> "variables", self |-> self,
             val |-> variables(constraintHeap[self])]
  /\ UNCHANGED <<variableHeap, variableRoot, constraintHeap, constraintBirth,
                 generated, costFunctions>>

ConstraintPrint(self) ==
  /\ ret' = [op |-> "Constraint::print", self |-> self,
             val |-> Constraint_print(constraintHeap[self])]
  /\ UNCHANGED <<variableHeap, variableRoot, constraintHeap, constraintBirth,
                 generated, costFunctions>>

ConstraintCostFunction(self) ==
  /\ Len(costFunctions) < MaxCostFunctions
  /\ costFunctions' =
       Append(costFunctions, costFunction(constraintHeap[self], costFunctions))
  /\ ret' = [op |-> "costFunction", self |-> self,
             val |-> costFunction(constraintHeap[self], costFunctions)]
  /\ UNCHANGED <<variableHeap, variableRoot, constraintHeap, constraintBirth,
                 generated>>

ConstraintLossFunction(self) ==
  /\ ret' = [op |-> "lossFunction", self |-> self,
             val |-> lossFunction(constraintHeap[self])]
  /\ UNCHANGED <<variableHeap, variableRoot, constraintHeap, constraintBirth,
                 generated, costFunctions>>

ConstraintClone(self) ==
  /\ Live < MaxObjects
  /\ constraintHeap' = Append(constraintHeap, Constraint_clone(constraintHeap[self]))
  /\ constraintBirth' = Append(constraintBirth, constraintBirth[self])
  /\ ret' = [op |-> "Constraint::clone", self |-> self,
             val |-> Len(constraintHeap) + 1]
  /\ UNCHANGED <<variableHeap, variableRoot, generated, costFunctions>>

Init ==
  /\ variableHeap = <<>>
  /\ variableRoot = <<>>
  /\ constraintHeap = <<>>
  /\ constraintBirth = <<>>
  /\ generated = 0
  /\ costFunctions = <<>>
  /\ ret = [op |-> "none", self |-> 0, val |-> 0]

\* The operations of AccelerationAngular2DStamped.
NextVariable ==
  \/ \E s \in Stamps, d \in Devices : NewVariable(s, d)
  \/ \E self \in VariableRefs, x \in Values : YawWrite(self, x)
  \/ \E self \in VariableRefs : YawRead(self)
  \/ \E self \in VariableRefs : VariableUuid(self)
  \/ \E self \in VariableRefs : VariablePrint(self)
  \/ \E self \in VariableRefs : VariableClone(self)

\* The operations of Constraint.
NextConstraint ==
  \/ \E range \in EndpointLists : NewConstraintRange(range)
  \/ \E list \in EndpointLists : NewConstraintList(list)
  \/ \E self \in ConstraintRefs : ConstraintType(self)
  \/ \E self \in ConstraintRefs : ConstraintUuid(self)
  \/ \E self \in ConstraintRefs : ConstraintVariables(self)
  \/ \E self \in ConstraintRefs : ConstraintPrint(self)
  \/ \E self \in ConstraintRefs : ConstraintCostFunction(self)
  \/ \E self \in ConstraintRefs : ConstraintLossFunction(self)
  \/ \E self \in ConstraintRefs : ConstraintClone(self)

\* Both classes side by side: every operation of Variable, and of Constraint its
\* construction, its copy and the reads of the fields a copy carries.
NextClone ==
  \/ \E s \in Stamps, d \in Devices : NewVariable(s, d)
  \/ \E self \in VariableRefs, x \in Values : YawWrite(self, x)
  \/ \E self \in VariableRefs : YawRead(self)
  \/ \E self \in VariableRefs : VariableUuid(self)
  \/ \E self \in VariableRefs : VariablePrint(self)
  \/ \E self \in VariableRefs : VariableClone(self)
  \/ \E range \in EndpointLists : NewConstraintRange(range)
  \/ \E list \in EndpointLists : NewConstraintList(list)
  \/ \E self \in ConstraintRefs : ConstraintUuid(self)
  \/ \E self \in ConstraintRefs : ConstraintVariables(self)
  \/ \E self \in ConstraintRefs : ConstraintClone(self)

Next == NextVariable \/ NextConstraint

SpecVariable == Init /\ [][NextVariable]_vars
SpecConstraint == Init /\ [][NextConstraint]_vars
SpecClone == Init /\ [][NextClone]_vars
Spec == Init /\ [][Next]_vars

(***************************************************************************)
(* Properties.                                                             *)
(***************************************************************************)
Variable(v) == variableHeap[v]
Constraint(c) == constraintHeap[c]

\* Two Variables, or two Constraints, that were constructed by two constructor
\* calls; a clone shares the root of the object it was copied from.
SeparateVariables(i, j) == variableRoot[i] # variableRoot[j]
ClonedVariables(i, j) == i # j /\ variableRoot[i] = variableRoot[j]
SeparateConstraints(i, j) == constraintBirth[i].root # constraintBirth[j].root
ClonedConstraints(i, j) == i # j /\ constraintBirth[i].root = constraintBirth[j].root

SameKey(i, j) ==
  /\ stamp(Variable(i)) = stamp(Variable(j))
  /\ deviceId(Variable(i)) = deviceId(Variable(j))

\* C1: a Constraint constructor handed an empty endpoint list fails: the call
\* yields no instance, and no Constraint whose variables() is empty exists.
C1_EmptyEndpointListRejected ==
  /\ \A c \in ConstraintRefs : variables(Constraint(c)) # <<>>
  /\ (ret.op \in {"Constraint(first, last)", "Constraint{}"} /\ ret.val = <<>>)
       => ret.self = 0

\* C2: uuid() of a stamped variable is the name-based identifier of
\* (type, timestamp, device id), whatever its scalar value is at the time, so two
\* variables constructed with the same (T, D) return equal values.
C2_UuidIsFunctionOfKey ==
  /\ \A v \in VariableRefs :
       AccelerationAngular2DStamped_uuid(Variable(v)) =
         uuid_generate_name(TYPE, stamp(Variable(v)), deviceId(Variable(v)))
  /\ ret.op = "Variable::uuid" =>
       ret.val = uuid_generate_name(TYPE, stamp(Variable(ret.self)),
                                    deviceId(Variable(ret.self)))

C2_Witness ==
  \E i, j \in VariableRefs :
    /\ SeparateVariables(i, j)
    /\ SameKey(i, j)
    /\ yaw(Variable(i)) # yaw(Variable(j))
    /\ ret.op = "Variable::uuid"
    /\ ret.self = j

\* C3: of two separately constructed variables with the same identifier, a step
\* that changes the scalar of one leaves the scalar of the other as it was.
C3_IndependentStorage ==
  [][\A i, j \in VariableRefs :
       (/\ SeparateVariables(i, j)
        /\ AccelerationAngular2DStamped_uuid(Variable(i)) =
             AccelerationAngular2DStamped_uuid(Variable(j))
        /\ yaw(variableHeap'[i]) # yaw(variableHeap[i]))
         => yaw(variableHeap'[j]) = yaw(variableHeap[j])]_vars

C3_Witness ==
  \E i, j \in VariableRefs :
    /\ SeparateVariables(i, j)
    /\ AccelerationAngular2DStamped_uuid(Variable(i)) =
         AccelerationAngular2DStamped_uuid(Variable(j))
    /\ ret.op = "yaw="
    /\ ret.self = i
    /\ yaw(Variable(i)) = ret.val
    /\ yaw(Variable(i)) # 0
    /\ yaw(Variable(j)) = 0

\* C4: clone() returns a new instance whose observable fields equal the
\* original's at the time of the call (Variable: identifier, timestamp, device
\* id, scalar; Constraint: identifier, endpoint list), the original being left
\* as it was; and a later step that changes the scalar of a clone or of its
\* original leaves the scalar of the other as it was.
C4_CloneEqualAndIndependent ==
  [][/\ (ret'.op = "Variable::clone" /\ Len(variableHeap') # Len(variableHeap)) =>
          /\ ret'.val \notin VariableRefs
          /\ AccelerationAngular2DStamped_uuid(variableHeap'[ret'.val]) =
               AccelerationAngular2DStamped_uuid(variableHeap[ret'.self])
          /\ stamp(variableHeap'[ret'.val]) = stamp(variableHeap[ret'.self])
          /\ deviceId(variableHeap'[ret'.val]) = deviceId(variableHeap[ret'.self])
          /\ size(variableHeap'[ret'.val]) = size(variableHeap[ret'.self])
          /\ yaw(variableHeap'[ret'.val]) = yaw(variableHeap[ret'.self])
          /\ variableHeap'[ret'.self] = variableHeap[ret'.self]
     /\ (ret'.op = "Constraint::clone" /\ Len(constraintHeap') # Len(constraintHeap)) =>
          /\ ret'.val \notin ConstraintRefs
          /\ Constraint_uuid(constraintHeap'[ret'.val]) =
               Constraint_uuid(constraintHeap[ret'.self])
          /\ variables(constraintHeap'[ret'.val]) =
               variables(constraintHeap[ret'.self])
          /\ constraintHeap'[ret'.self] = constraintHeap[ret'.self]
     /\ \A i, j \in VariableRefs :
          (ClonedVariables(i, j) /\ yaw(variableHeap'[i]) # yaw(variableHeap[i]))
            => yaw(variableHeap'[j]) = yaw(variableHeap[j])]_vars

C4_Witness ==
  \E i, j \in VariableRefs :
    /\ ClonedVariables(i, j)
    /\ variableRoot[i] = i
    /\ ret.op = "yaw="
    /\ ret.self = j
    /\ yaw(Variable(j)) = ret.val
    /\ yaw(Variable(j)) # yaw(Variable(i))
    /\ AccelerationAngular2DStamped_uuid(Variable(i)) =
         AccelerationAngular2DStamped_uuid(Variable(j))

\* C5: variables() of a Constraint constructed from a non-empty sequence of
\* identifiers is that sequence: same length, same element at each position.
C5_VariablesIsInput ==
  /\ \A c \in ConstraintRefs :
       constraintBirth[c].input # <<>> =>
         variables(Constraint(c)) = constraintBirth[c].input
  /\ (ret.op = "variables" /\ constraintBirth[ret.self].input # <<>>) =>
       ret.val = constraintBirth[ret.self].input

C5_Witness ==
  \E c \in ConstraintRefs :
    /\ Len(constraintBirth[c].input) >= 2
    /\ constraintBirth[c].input[1] # constraintBirth[c].input[2]
    /\ ret.op = "variables"
    /\ ret.self = c
    /\ \E d \in ConstraintRefs :
         /\ Len(constraintBirth[d].input) >= 2
         /\ constraintBirth[d].input[1] = constraintBirth[d].input[2]

\* C6: two Constraints constructed by two constructor calls (neither a clone of
\* the other) have different uuid() values.
C6_FreshUuidPerConstruction ==
  \A i, j \in ConstraintRefs :
    SeparateConstraints(i, j) =>
      Constraint_uuid(Constraint(i)) # Constraint_uuid(Constraint(j))

C6_Witness ==
  \E i, j \in ConstraintRefs :
    /\ SeparateConstraints(i, j)
    /\ variables(Constraint(i)) = variables(Constraint(j))
    /\ variables(Constraint(i)) # <<>>

\* C7: no step changes uuid(), the timestamp, the device id or the size of an
\* existing Variable, and the size is 1.
C7_IdentityAndSizeFixed ==
  [][\A v \in VariableRefs :
       /\ AccelerationAngular2DStamped_uuid(variableHeap'[v]) =
            AccelerationAngular2DStamped_uuid(variableHeap[v])
       /\ stamp(variableHeap'[v]) = stamp(variableHeap[v])
       /\ deviceId(variableHeap'[v]) = deviceId(variableHeap[v])
       /\ size(variableHeap'[v]) = size(variableHeap[v])
       /\ size(variableHeap'[v]) = SIZE]_vars

C7_Witness ==
  \E i, j \in VariableRefs :
    /\ ClonedVariables(i, j)
    /\ yaw(Variable(i)) # 0
    /\ yaw(Variable(j)) # yaw(Variable(i))
    /\ ret.op = "Variable::print"

\* C8: no step changes uuid() or variables() of an existing Constraint, and a
\* costFunction() call returns an object none of the earlier calls returned.
C8_ConstraintOperationsPure ==
  [][/\ \A c \in ConstraintRefs :
          /\ Constraint_uuid(constraintHeap'[c]) = Constraint_uuid(constraintHeap[c])
          /\ variables(constraintHeap'[c]) = variables(constraintHeap[c])
     /\ Len(costFunctions') # Len(costFunctions) =>
          \A k \in 1 .. Len(costFunctions) :
            costFunctions[k] # costFunctions'[Len(costFunctions')]]_vars

C8_Witness ==
  /\ Len(costFunctions) >= 2
  /\ \E i, j \in ConstraintRefs : ClonedConstraints(i, j)
  /\ ret.op = "costFunction"

\* C9: lossFunction() of a constraint kind that does not override it returns
\* the null pointer, on every call.
C9_DefaultLossIsNull ==
  /\ \A c \in ConstraintRefs : lossFunction(Constraint(c)) = nullptr
  /\ ret.op = "lossFunction" => ret.val = nullptr

C9_Witness ==
  /\ ret.op = "lossFunction"
  /\ Len(costFunctions) > 0
  /\ variables(Constraint(ret.self)) # <<>>

=============================================================================
